---- MODULE Spec2Model ----
(***************************************************************************)
(* Model of the lyrics path of bairry (src/src/genius_integration.py):     *)
(* the fingerprint-keyed file cache, the retrying search request, the      *)
(* page fetch and the get_lyrics orchestration.                            *)
(***************************************************************************)
EXTENDS Integers, Sequences, FiniteSets, TLC

VARIABLES
    cache,      \* cache directory: cache key -> file [exists, text]
    pc,         \* position of each caller inside get_lyrics
    arg,        \* arguments of the current call: [title, artist]
    seen,       \* what _read_cache found on disk at the cache check (file)
    attempts,   \* HTTP attempts made so far by the search request of the call
    only429,    \* every attempt of the search request so far was answered 429
    song,       \* song_data returned by search_song
    cause,      \* how the call ended (which branch of get_lyrics was taken)
    result,     \* outcome of the call: returned value or raised exception
    nSearch,    \* search requests issued by the current call
    nFetch,     \* page fetches issued by the current call
    nWrite,     \* cache writes issued by the current call
    prior,      \* outcomes of earlier calls with the same (title, artist)
    got,        \* outcomes of finished network calls, per (title, artist)
    calls,      \* number of get_lyrics calls started
    conc,       \* callers may overlap (no locking) or run one at a time
    faulty,     \* number of cache writes that may still fail with an I/O error
    kq,         \* inputs of the fingerprint computation: two (title, artist) pairs
    kout,       \* the two fingerprints computed from kq
    apiLog,     \* last direct cache operation: write and read through the cache API
    fin,        \* input drawn for the function or request exercised on its own
    fout        \* what that function or request produced (<<>> before it ran)

vars == <<cache, pc, arg, seen, attempts, only429, song, cause, result,
          nSearch, nFetch, nWrite, prior, got, calls, conc, faulty,
          kq, kout, apiLog, fin, fout>>

lyricsVars == <<cache, pc, arg, seen, attempts, only429, song, cause, result,
                nSearch, nFetch, nWrite, prior, got, calls, conc, faulty>>

-----------------------------------------------------------------------------
(* Bounds *)

MaxCalls == 3
MaxStrLen == 1
MaxWriteFailures == 1

(* Program constants *)

MAX_RETRIES == 3

-----------------------------------------------------------------------------
(* Strings are sequences of characters; lower() maps each character.      *)

LowerTable ==
    ("A" :> "a") @@ ("B" :> "b") @@ ("C" :> "c") @@ ("D" :> "d") @@ ("E" :> "e") @@ ("F" :> "f") @@
    ("G" :> "g") @@ ("H" :> "h") @@ ("I" :> "i") @@ ("J" :> "j") @@ ("K" :> "k") @@ ("L" :> "l") @@
    ("M" :> "m") @@ ("N" :> "n") @@ ("O" :> "o") @@ ("P" :> "p") @@ ("Q" :> "q") @@ ("R" :> "r") @@
    ("S" :> "s") @@ ("T" :> "t") @@ ("U" :> "u") @@ ("V" :> "v") @@ ("W" :> "w") @@ ("X" :> "x") @@
    ("Y" :> "y") @@ ("Z" :> "z")

LowerChar(c) == IF c \in DOMAIN LowerTable THEN LowerTable[c] ELSE c

(* str.lower() of one character: the capital I with a dot above (written  *)
(* "I_dot") lowers to two characters, an i and a combining dot.            *)
LowerOf(c) == IF c = "I_dot" THEN <<"i", "dot">> ELSE <<LowerChar(c)>>

RECURSIVE LowerFrom(_, _)
LowerFrom(s, i) == IF i > Len(s) THEN <<>> ELSE LowerOf(s[i]) \o LowerFrom(s, i + 1)

Lower(s) == LowerFrom(s, 1)

Alphabet == {"a", "A", ":"}

StringsUpTo(n) == UNION {[1..k -> Alphabet] : k \in 0..n}

(* Python values: None, booleans and strings. *)

PyNone == [ty |-> "NoneType", v |-> ""]
PyTrue == [ty |-> "bool", v |-> "True"]
PyStr(s) == [ty |-> "str", v |-> s]

Truthy(pv) ==
    CASE pv.ty = "NoneType" -> FALSE
      [] pv.ty = "bool" -> pv.v = "True"
      [] OTHER -> pv.v # ""

(* A dict is a sequence of items [k, val] in insertion order. *)

Item(k, val) == [k |-> k, val |-> val]

RECURSIVE DictGet(_, _)
DictGet(items, k) ==
    IF items = <<>> THEN PyNone
    ELSE IF items[Len(items)].k = k THEN items[Len(items)].val
    ELSE DictGet(SubSeq(items, 1, Len(items) - 1), k)

-----------------------------------------------------------------------------
(* JSON text is a sequence of tokens <<kind, key, json type, json text>>.  *)

Tok(kind) == <<kind, "", "", "">>

JsonEncVal(pv) ==
    CASE pv.ty = "NoneType" -> <<"null", "null">>
      [] pv.ty = "bool" -> <<"bool", IF pv.v = "True" THEN "true" ELSE "false">>
      [] OTHER -> <<"string", pv.v>>

JsonDecVal(jt, jv) ==
    CASE jt = "null" -> PyNone
      [] jt = "bool" -> [ty |-> "bool", v |-> IF jv = "true" THEN "True" ELSE "False"]
      [] OTHER -> PyStr(jv)

JsonDump(items) ==
    <<Tok("{")>>
    \o [i \in 1..Len(items) |->
          <<"pair", items[i].k, JsonEncVal(items[i].val)[1], JsonEncVal(items[i].val)[2]>>]
    \o <<Tok("}")>>

(* json.load: a parsed document [ok, ty, items]; ok = FALSE is a decode error. *)

JsonError == [ok |-> FALSE, ty |-> "", items |-> <<>>]

JsonLoad(text) ==
    IF text = <<Tok("null")>> THEN [ok |-> TRUE, ty |-> "NoneType", items |-> <<>>]
    ELSE IF text = <<Tok("["), Tok("]")>> THEN [ok |-> TRUE, ty |-> "list", items |-> <<>>]
    ELSE IF /\ Len(text) >= 2
            /\ text[1] = Tok("{")
            /\ text[Len(text)] = Tok("}")
            /\ \A i \in 2..(Len(text) - 1) : text[i][1] = "pair"
         THEN [ok |-> TRUE, ty |-> "dict",
               items |-> [i \in 1..(Len(text) - 2) |->
                            Item(text[i + 1][2], JsonDecVal(text[i + 1][3], text[i + 1][4]))]]
    ELSE JsonError

-----------------------------------------------------------------------------
(* The cache *)

NoFile == [exists |-> FALSE, text |-> <<>>]
File(text) == [exists |-> TRUE, text |-> text]

(* hashlib.md5(...).hexdigest(): the digest is taken as injective on its   *)
(* input, so the digest of a string is represented by the string itself.   *)
Md5Hex(s) == s

GetCacheKeyNoLower(song_title, artist_name) ==
    Md5Hex(song_title \o <<":">> \o artist_name)

GetCacheKey(song_title, artist_name) ==
    Md5Hex(Lower(song_title \o <<":">> \o artist_name))

Py(doc) == [ty |-> doc.ty, items |-> doc.items]
PyNoneDoc == [ty |-> "NoneType", items |-> <<>>]

ReadCache(dir, cache_key) ==
    IF dir[cache_key].exists
    THEN IF JsonLoad(dir[cache_key].text).ok
         THEN Py(JsonLoad(dir[cache_key].text))
         ELSE PyNoneDoc
    ELSE PyNoneDoc

WriteOutcomes == IF faulty > 0 THEN {"ok", "open_failed", "dump_failed"} ELSE {"ok"}

Prefixes(text) == {SubSeq(text, 1, n) : n \in 0..(Len(text) - 1)}

WriteCacheRaisesUnguarded(wo) == wo # "ok"

(* Lines 110-114: the write runs inside try / except Exception, which logs *)
(* a warning; no outcome of the write raises out of _write_cache.          *)
WriteCacheRaises(wo) == FALSE

(* The files a write can leave behind: the full dump, the old file when   *)
(* open() fails, or a truncated dump when the write fails part-way.        *)
WriteCacheFiles(dir, cache_key, data, wo) ==
    CASE wo = "ok" -> {File(JsonDump(data))}
      [] wo = "open_failed" -> {dir[cache_key]}
      [] OTHER -> {File(t) : t \in Prefixes(JsonDump(data))}

-----------------------------------------------------------------------------
(* Inputs of the lyrics path *)

Titles == {<<"h">>, <<"H">>, <<"h", ":">>}
Artists == {<<"a">>, <<":", "a">>}
Queries == [title : Titles, artist : Artists]
Keys == {GetCacheKey(q.title, q.artist) : q \in Queries}

Procs == {"p1", "p2"}
Lyrics == {"L1", "L2"}
Hits == {[url |-> "u1", title |-> "T1", artist |-> "A1"]}
NoSong == [url |-> "", title |-> "", artist |-> ""]
NoQuery == [title |-> <<>>, artist |-> <<>>]

NotFoundMarker == <<Item("not_found", PyTrue)>>

LyricsRecord(lyrics, sd) ==
    <<Item("lyrics", PyStr(lyrics)), Item("url", PyStr(sd.url)),
      Item("title", PyStr(sd.title)), Item("artist", PyStr(sd.artist))>>

NoResult == [kind |-> "none", val |-> PyNone]
Return(pv) == [kind |-> "return", val |-> pv]
Raise(exc) == [kind |-> "raise", val |-> PyStr(exc)]

-----------------------------------------------------------------------------
(* The retrying session (urllib3 Retry mounted on the session): an attempt *)
(* is [status, hits], status 0 standing for a connection failure.          *)

StatusForcelist == {429, 500, 502, 503, 504}

SearchAttempts ==
    {[status |-> 200, hits |-> <<h>>] : h \in Hits}
    \cup {[status |-> st, hits |-> <<>>] : st \in {200, 404, 0} \cup StatusForcelist}

Retryable(o) == o.status = 0 \/ o.status \in StatusForcelist

SessionGetOneMore(o, n) ==
    IF Retryable(o)
    THEN IF n <= MAX_RETRIES
         THEN [kind |-> "retry", exc |-> "", status |-> o.status, hits |-> <<>>]
         ELSE [kind |-> "exception",
               exc |-> IF o.status = 0 THEN "ConnectionError" ELSE "RetryError",
               status |-> o.status, hits |-> <<>>]
    ELSE [kind |-> "response", exc |-> "", status |-> o.status, hits |-> o.hits]

(* n is the number of attempts already made. Retry(total = MAX_RETRIES)    *)
(* allows MAX_RETRIES retries after the first attempt; once they are used  *)
(* up the adapter raises (RetryError for a forcelist status,               *)
(* ConnectionError for a connection failure), it does not hand back the    *)
(* last response.                                                          *)
SessionGet(o, n) ==
    IF Retryable(o)
    THEN IF n < MAX_RETRIES
         THEN [kind |-> "retry", exc |-> "", status |-> o.status, hits |-> <<>>]
         ELSE [kind |-> "exception",
               exc |-> IF o.status = 0 THEN "ConnectionError" ELSE "RetryError",
               status |-> o.status, hits |-> <<>>]
    ELSE [kind |-> "response", exc |-> "", status |-> o.status, hits |-> o.hits]

SearchSongHitWithoutSong(res) ==
    IF res.kind = "exception"
    THEN [kind |-> "raise", exc |-> "LyricsNotFoundError", found |-> FALSE, song |-> NoSong]
    ELSE IF res.status = 429
    THEN [kind |-> "raise", exc |-> "RateLimitError", found |-> FALSE, song |-> NoSong]
    ELSE IF res.status >= 400
    THEN [kind |-> "raise", exc |-> "LyricsNotFoundError", found |-> FALSE, song |-> NoSong]
    ELSE IF res.hits # <<>>
    THEN [kind |-> "return", exc |-> "", found |-> TRUE, song |-> res.hits[1]]
    ELSE [kind |-> "return", exc |-> "", found |-> TRUE, song |-> NoSong]

(* search_song, given what the session call produced. *)
SearchSong(res) ==
    IF res.kind = "exception"
    THEN [kind |-> "raise", exc |-> "LyricsNotFoundError", found |-> FALSE, song |-> NoSong]
    ELSE IF res.status = 429
    THEN [kind |-> "raise", exc |-> "RateLimitError", found |-> FALSE, song |-> NoSong]
    ELSE IF res.status >= 400
    THEN [kind |-> "raise", exc |-> "LyricsNotFoundError", found |-> FALSE, song |-> NoSong]
    ELSE IF res.hits # <<>>
    THEN [kind |-> "return", exc |-> "", found |-> TRUE, song |-> res.hits[1]]
    ELSE [kind |-> "return", exc |-> "", found |-> FALSE, song |-> NoSong]

(* How a search that did not produce song_data ended. *)
SearchCause(res, s, all429) ==
    IF s.kind = "return" THEN "zero_hits"
    ELSE IF s.exc = "RateLimitError" THEN "search_rate_limited"
    ELSE IF res.kind = "response" THEN "search_http_error"
    ELSE IF res.status = 0 THEN "search_connection_failed"
    ELSE IF all429 THEN "search_429_exhausted"
    ELSE "search_retry_exhausted"

-----------------------------------------------------------------------------
(* fetch_lyrics: one plain requests.get, no retry. A page is               *)
(* [status, containers, lyrics]; status 0 stands for a timeout.            *)

FetchOutcomes ==
    {[status |-> 200, containers |-> "text", lyrics |-> l] : l \in Lyrics}
    \cup {[status |-> 200, containers |-> c, lyrics |-> ""] : c \in {"none", "empty"}}
    \cup {[status |-> st, containers |-> "none", lyrics |-> ""] : st \in {0, 404, 429, 500}}

FetchLyrics(o) ==
    IF o.status = 0 \/ o.status >= 400
    THEN [kind |-> "raise", exc |-> "LyricsNotFoundError", lyrics |-> ""]
    ELSE IF o.containers = "none" \/ o.containers = "empty"
    THEN [kind |-> "raise", exc |-> "LyricsNotFoundError", lyrics |-> ""]
    ELSE [kind |-> "return", exc |-> "", lyrics |-> o.lyrics]

FetchCause(o) ==
    IF o.status = 0 THEN "fetch_timeout"
    ELSE IF o.status = 429 THEN "fetch_rate_limited"
    ELSE IF o.status >= 400 THEN "fetch_http_error"
    ELSE IF o.containers = "text" THEN "fetched"
    ELSE "fetch_no_text"

-----------------------------------------------------------------------------
(* get_lyrics *)

CacheHitResultNoLyrics(cached) == Return(PyNone)

(* Lines 247-253: what a non-None cached value makes get_lyrics do. *)
CacheHitResult(cached) ==
    IF cached.ty # "dict" THEN Raise("AttributeError")
    ELSE IF Truthy(DictGet(cached.items, "not_found")) THEN Return(PyNone)
    ELSE Return(DictGet(cached.items, "lyrics"))

HandleLyricsNotFoundPropagate == [write |-> FALSE, data |-> <<>>, result |-> Raise("LyricsNotFoundError")]

(* Lines 279-282: except LyricsNotFoundError. *)
HandleLyricsNotFound == [write |-> TRUE, data |-> NotFoundMarker, result |-> Return(PyNone)]

HandleNoSongDataNoCache == [write |-> FALSE, data |-> <<>>, result |-> Return(PyNone)]

(* Lines 258-261: search_song returned None. *)
HandleNoSongData == [write |-> TRUE, data |-> NotFoundMarker, result |-> Return(PyNone)]

(* Lines 277-278: except RateLimitError. *)
HandleRateLimit == [write |-> FALSE, data |-> <<>>, result |-> Raise("RateLimitError")]

(* Lines 266-275: the fetch succeeded. *)
HandleFetched(lyrics, sd) ==
    [write |-> TRUE, data |-> LyricsRecord(lyrics, sd), result |-> Return(PyStr(lyrics))]

AfterSearch(s) ==
    IF s.kind = "raise"
    THEN IF s.exc = "RateLimitError" THEN HandleRateLimit ELSE HandleLyricsNotFound
    ELSE HandleNoSongData

AfterFetch(f, sd) ==
    IF f.kind = "raise" THEN HandleLyricsNotFound ELSE HandleFetched(f.lyrics, sd)

KeyOf(p) == GetCacheKey(arg[p].title, arg[p].artist)

(* Line 110: open(cache_file, 'w') creates the file or cuts it to length 0. *)
OpenForWrite == File(<<>>)

(* Lines 110-111: leaving the with block writes the buffered dump at       *)
(* offset 0 of the file as it is then; what lies beyond the dump stays.    *)
CloseAfterWrite(old, data) ==
    File(JsonDump(data) \o SubSeq(old.text, Len(JsonDump(data)) + 1, Len(old.text)))

(* The call ends: apply the handler's cache write and record the outcome.  *)
(* With callers running side by side the write is two file operations:     *)
(* the open happens here and the close is a step of its own.               *)
Finish(p, h, why, detail) ==
    /\ \E wo \in WriteOutcomes :
         /\ IF h.write
            THEN IF conc
                 THEN cache' = [cache EXCEPT ![KeyOf(p)] = OpenForWrite]
                 ELSE \E f \in WriteCacheFiles(cache, KeyOf(p), h.data, wo) :
                          cache' = [cache EXCEPT ![KeyOf(p)] = f]
            ELSE cache' = cache
         /\ got' = [got EXCEPT ![arg[p]] = @ \cup {<<why, detail, IF h.write THEN wo ELSE "">>}]
         /\ faulty' = IF h.write /\ wo # "ok" THEN faulty - 1 ELSE faulty
         /\ result' = [result EXCEPT ![p] = IF h.write /\ WriteCacheRaises(wo)
                                             THEN Raise("OSError") ELSE h.result]
    /\ nWrite' = [nWrite EXCEPT ![p] = IF h.write THEN @ + 1 ELSE @]
    /\ cause' = [cause EXCEPT ![p] = why]
    /\ pc' = [pc EXCEPT ![p] = IF conc /\ h.write THEN "flush" ELSE "done"]

GetLyrics(p, q) ==
    /\ pc[p] \in {"idle", "done"}
    /\ calls < MaxCalls
    /\ conc \/ p = "p1"
    /\ calls' = calls + 1
    /\ pc' = [pc EXCEPT ![p] = "check"]
    /\ arg' = [arg EXCEPT ![p] = q]
    /\ prior' = [prior EXCEPT ![p] = got[q]]
    /\ seen' = [seen EXCEPT ![p] = NoFile]
    /\ attempts' = [attempts EXCEPT ![p] = 0]
    /\ only429' = [only429 EXCEPT ![p] = TRUE]
    /\ song' = [song EXCEPT ![p] = NoSong]
    /\ cause' = [cause EXCEPT ![p] = ""]
    /\ result' = [result EXCEPT ![p] = NoResult]
    /\ nSearch' = [nSearch EXCEPT ![p] = 0]
    /\ nFetch' = [nFetch EXCEPT ![p] = 0]
    /\ nWrite' = [nWrite EXCEPT ![p] = 0]
    /\ UNCHANGED <<cache, got, conc, faulty, kq, kout, apiLog, fin, fout>>

CacheCheck(p) ==
    /\ pc[p] = "check"
    /\ seen' = [seen EXCEPT ![p] = cache[KeyOf(p)]]
    /\ IF ReadCache(cache, KeyOf(p)).ty # "NoneType"
       THEN /\ result' = [result EXCEPT ![p] = CacheHitResult(ReadCache(cache, KeyOf(p)))]
            /\ cause' = [cause EXCEPT ![p] = "cache_hit"]
            /\ pc' = [pc EXCEPT ![p] = "done"]
       ELSE /\ pc' = [pc EXCEPT ![p] = "search"]
            /\ UNCHANGED <<result, cause>>
    /\ UNCHANGED <<cache, arg, attempts, only429, song, nSearch, nFetch, nWrite,
                   prior, got, calls, conc, faulty, kq, kout, apiLog, fin, fout>>

(* An attempt of the search request that the retry layer repeats. *)
SearchRetry(p) ==
    /\ pc[p] = "search"
    /\ \E o \in SearchAttempts :
         /\ SessionGet(o, attempts[p]).kind = "retry"
         /\ only429' = [only429 EXCEPT ![p] = @ /\ o.status = 429]
    /\ attempts' = [attempts EXCEPT ![p] = @ + 1]
    /\ nSearch' = [nSearch EXCEPT ![p] = 1]
    /\ UNCHANGED <<cache, pc, arg, seen, song, cause, result, nFetch, nWrite,
                   prior, got, calls, conc, faulty, kq, kout, apiLog, fin, fout>>

(* The last attempt of the search request and the rest of search_song;    *)
(* without song_data get_lyrics ends here.                                 *)
SearchDone(p) ==
    /\ pc[p] = "search"
    /\ \E o \in SearchAttempts :
         LET res == SessionGet(o, attempts[p])
             s == SearchSong(res)
             all429 == only429[p] /\ o.status = 429
         IN /\ res.kind # "retry"
            /\ only429' = [only429 EXCEPT ![p] = all429]
            /\ IF s.kind = "return" /\ s.found
               THEN /\ song' = [song EXCEPT ![p] = s.song]
                    /\ pc' = [pc EXCEPT ![p] = "fetch"]
                    /\ UNCHANGED <<cache, got, nWrite, result, cause, faulty>>
               ELSE /\ Finish(p, AfterSearch(s), SearchCause(res, s, all429), "")
                    /\ UNCHANGED song
    /\ attempts' = [attempts EXCEPT ![p] = @ + 1]
    /\ nSearch' = [nSearch EXCEPT ![p] = 1]
    /\ UNCHANGED <<arg, seen, nFetch, prior, calls, conc, kq, kout, apiLog, fin, fout>>

(* fetch_lyrics and the rest of get_lyrics. *)
Fetch(p) ==
    /\ pc[p] = "fetch"
    /\ \E o \in FetchOutcomes :
         Finish(p, AfterFetch(FetchLyrics(o), song[p]), FetchCause(o), o.lyrics)
    /\ nFetch' = [nFetch EXCEPT ![p] = @ + 1]
    /\ UNCHANGED <<arg, seen, attempts, only429, song, nSearch, prior, calls,
                   conc, kq, kout, apiLog, fin, fout>>

-----------------------------------------------------------------------------

NoApi == [op |-> "none", wq |-> NoQuery, data |-> <<>>, wkeys |-> {},
          rq |-> NoQuery, val |-> PyNoneDoc]

InitLyrics ==
    /\ cache = [k \in Keys |-> NoFile]
    /\ pc = [p \in Procs |-> "idle"]
    /\ arg = [p \in Procs |-> NoQuery]
    /\ seen = [p \in Procs |-> NoFile]
    /\ attempts = [p \in Procs |-> 0]
    /\ only429 = [p \in Procs |-> TRUE]
    /\ song = [p \in Procs |-> NoSong]
    /\ cause = [p \in Procs |-> ""]
    /\ result = [p \in Procs |-> NoResult]
    /\ nSearch = [p \in Procs |-> 0]
    /\ nFetch = [p \in Procs |-> 0]
    /\ nWrite = [p \in Procs |-> 0]
    /\ prior = [p \in Procs |-> {}]
    /\ got = [q \in Queries |-> {}]
    /\ calls = 0

Init ==
    /\ InitLyrics
    /\ conc = FALSE
    /\ faulty = 0
    /\ kq = <<NoQuery, NoQuery>>
    /\ kout = <<>>
    /\ apiLog = NoApi
    /\ fin = <<>>
    /\ fout = <<>>

Next ==
    \E p \in Procs :
        \/ \E q \in Queries : GetLyrics(p, q)
        \/ CacheCheck(p)
        \/ SearchRetry(p)
        \/ SearchDone(p)
        \/ Fetch(p)

Spec == Init /\ [][Next]_vars

-----------------------------------------------------------------------------
(* Fingerprint computation on its own: two (title, artist) pairs are drawn *)
(* and _get_cache_key is applied to each.                                  *)

KeyQueries == [title : StringsUpTo(MaxStrLen), artist : StringsUpTo(MaxStrLen)]

LowerPair(q) == <<Lower(q.title), Lower(q.artist)>>

ComputeKeys ==
    /\ kout = <<>>
    /\ kout' = <<GetCacheKey(kq[1].title, kq[1].artist),
                 GetCacheKey(kq[2].title, kq[2].artist)>>
    /\ UNCHANGED <<lyricsVars, kq, apiLog, fin, fout>>

InitKey ==
    /\ InitLyrics
    /\ conc = FALSE
    /\ faulty = 0
    /\ kq \in KeyQueries \X KeyQueries
    /\ kout = <<>>
    /\ apiLog = NoApi
    /\ fin = <<>>
    /\ fout = <<>>

NextKey == ComputeKeys

SpecKey == InitKey /\ [][NextKey]_vars

-----------------------------------------------------------------------------
(* The cache API on its own: _write_cache and _read_cache called with the  *)
(* key of a (title, artist) pair. apiLog remembers the last write, the     *)
(* keys written so far and the last read.                                  *)

PyFalse == [ty |-> "bool", v |-> "False"]

ApiRecords ==
    {NotFoundMarker, <<Item("not_found", PyFalse)>>,
     <<Item("lyrics", PyStr("")), Item("url", PyNone)>>}
    \cup {LyricsRecord("L1", h) : h \in Hits}

WriteCache(q, data) ==
    /\ cache' = [cache EXCEPT ![GetCacheKey(q.title, q.artist)] = File(JsonDump(data))]
    /\ apiLog' = [apiLog EXCEPT !.op = "write", !.wq = q, !.data = data,
                                !.wkeys = @ \cup {GetCacheKey(q.title, q.artist)}]
    /\ UNCHANGED <<pc, arg, seen, attempts, only429, song, cause, result, nSearch,
                   nFetch, nWrite, prior, got, calls, conc, faulty, kq, kout, fin, fout>>

ReadCacheCall(q) ==
    /\ apiLog' = [apiLog EXCEPT !.op = "read", !.rq = q,
                                !.val = ReadCache(cache, GetCacheKey(q.title, q.artist))]
    /\ UNCHANGED <<lyricsVars, kq, kout, fin, fout>>

InitCache ==
    /\ InitLyrics
    /\ conc = FALSE
    /\ faulty = 0
    /\ kq = <<NoQuery, NoQuery>>
    /\ kout = <<>>
    /\ apiLog = NoApi
    /\ fin = <<>>
    /\ fout = <<>>

NextCache ==
    \E q \in Queries :
        \/ \E data \in ApiRecords : WriteCache(q, data)
        \/ ReadCacheCall(q)

SpecCache == InitCache /\ [][NextCache]_vars

-----------------------------------------------------------------------------
(* The lyrics path with a cache directory that something else also writes: *)
(* before the first call one file of the directory is replaced by other    *)
(* text (apiLog notes that it happened).                                   *)

ExternalTexts ==
    {<<>>,                              \* empty file
     <<Tok("{"), Tok("garbage")>>,      \* {invalid json content
     <<Tok("["), Tok("]")>>,            \* []
     <<Tok("{"), Tok("}")>>}            \* {}

TamperCache(k, f) ==
    /\ calls = 0
    /\ apiLog.op = "none"
    /\ cache[k] # f
    /\ cache' = [cache EXCEPT ![k] = f]
    /\ apiLog' = [apiLog EXCEPT !.op = "external"]
    /\ UNCHANGED <<pc, arg, seen, attempts, only429, song, cause, result, nSearch,
                   nFetch, nWrite, prior, got, calls, conc, faulty, kq, kout, fin, fout>>

NextEnv ==
    \/ \E p \in Procs :
        \/ \E q \in Queries : GetLyrics(p, q)
        \/ CacheCheck(p)
        \/ SearchRetry(p)
        \/ SearchDone(p)
        \/ Fetch(p)
    \/ \E k \in Keys, t \in ExternalTexts : TamperCache(k, File(t))

SpecEnv == Init /\ [][NextEnv]_vars

-----------------------------------------------------------------------------
(* Properties *)

Done(p) == pc[p] = "done"

PriorHas(p, why) == \E tag \in prior[p] : tag[1] = why

NegativeDoc == [ty |-> "dict", items |-> NotFoundMarker]

(* C1: a call that missed the cache and whose search request was answered  *)
(* 429 on every attempt raises RateLimitError once the retries are used    *)
(* up, and the cache holds no entry for its fingerprint afterwards.        *)
C1_RateLimitSurfaces ==
    \A p \in Procs :
        (Done(p) /\ cause[p] = "search_429_exhausted")
            => /\ result[p] = Raise("RateLimitError")
               /\ ~cache[KeyOf(p)].exists

(* C2: a call whose search request failed for a reason other than rate     *)
(* limiting raises a generic upstream failure; it does not return absent.  *)
C2_SearchFailureSurfaces ==
    \A p \in Procs :
        (Done(p) /\ cause[p] \in {"search_http_error", "search_connection_failed",
                                  "search_retry_exhausted"})
            => /\ result[p].kind = "raise"
               /\ result[p] # Raise("RateLimitError")

TransportCauses ==
    {"search_http_error", "search_connection_failed", "search_retry_exhausted",
     "search_429_exhausted", "fetch_timeout", "fetch_http_error", "fetch_rate_limited"}

(* C3: a negative marker is stored under a fingerprint only if some call   *)
(* for that fingerprint had a search with zero hits or a fetch that found  *)
(* no lyric text; a call that failed for a transport reason writes none.   *)
C3_NegativeOnlyWhenAuthoritative ==
    /\ \A k \in Keys :
         ReadCache(cache, k) = NegativeDoc
            => \E q \in Queries :
                  /\ GetCacheKey(q.title, q.artist) = k
                  /\ \E tag \in got[q] : tag[1] \in {"zero_hits", "fetch_no_text"}
    /\ \A p \in Procs :
         (Done(p) /\ cause[p] \in TransportCauses) => nWrite[p] = 0

(* C4: a 429 answer to the page fetch makes get_lyrics raise               *)
(* RateLimitError and write nothing to the cache.                          *)
C4_FetchRateLimitSurfaces ==
    \A p \in Procs :
        (Done(p) /\ cause[p] = "fetch_rate_limited")
            => /\ result[p] = Raise("RateLimitError")
               /\ nWrite[p] = 0

(* C5: once a call for (title, artist) has returned lyrics L and stored    *)
(* them, every later call with the same title and artist returns exactly L *)
(* and issues no search and no fetch request.                              *)
C5_CachedLyricsReturned ==
    \A p \in Procs : \A l \in Lyrics :
        (pc[p] # "idle" /\ <<"fetched", l, "ok">> \in prior[p])
            => /\ nSearch[p] = 0
               /\ nFetch[p] = 0
               /\ pc[p] \in {"check", "done"}
               /\ Done(p) => result[p] = Return(PyStr(l))

C5_Witness ==
    \E p \in Procs : \E q \in Queries :
        /\ Done(p)
        /\ calls = MaxCalls
        /\ q # arg[p]
        /\ got[q] # {}
        /\ <<"fetched", "L2", "ok">> \in prior[p]
        /\ result[p] = Return(PyStr("L2"))
        /\ nSearch[p] = 0

C8_DistinctQueriesDistinctKeys ==
    kout # <<>> =>
        (LowerPair(kq[1]) # LowerPair(kq[2]) => kout[1] # kout[2])

(* C9: a record written under the fingerprint of (title, artist) is read   *)
(* back equal through the fingerprint of any casing variant of the same    *)
(* pair, and a fingerprint that was never written reads as absent.         *)
C9_CacheRoundTrip ==
    apiLog.op = "read" =>
        /\ (apiLog.wkeys # {} /\ LowerPair(apiLog.rq) = LowerPair(apiLog.wq))
              => apiLog.val = [ty |-> "dict", items |-> apiLog.data]
        /\ GetCacheKey(apiLog.rq.title, apiLog.rq.artist) \notin apiLog.wkeys
              => apiLog.val = PyNoneDoc

C9_Witness ==
    /\ apiLog.op = "read"
    /\ apiLog.rq # apiLog.wq
    /\ LowerPair(apiLog.rq) = LowerPair(apiLog.wq)
    /\ apiLog.data \in {LyricsRecord("L1", h) : h \in Hits}
    /\ apiLog.val = [ty |-> "dict", items |-> apiLog.data]

Usable(f) ==
    /\ f.exists
    /\ JsonLoad(f.text).ok
    /\ JsonLoad(f.text).ty = "dict"
    /\ \/ Truthy(DictGet(JsonLoad(f.text).items, "not_found"))
       \/ DictGet(JsonLoad(f.text).items, "lyrics").ty = "str"

(* C10: whatever the file under the fingerprint holds, get_lyrics does not *)
(* fail because of it: a file that is not a usable record is a cache miss  *)
(* and the call goes on to search.                                         *)
C10_UnusableRecordIsMiss ==
    \A p \in Procs :
        (Done(p) /\ ~Usable(seen[p]))
            => /\ result[p] # Raise("AttributeError")
               /\ nSearch[p] >= 1

-----------------------------------------------------------------------------
(* The lyrics path over a cache directory whose writes may fail, up to     *)
(* MaxWriteFailures times in a run: open() raises, or the dump stops       *)
(* part-way and leaves a truncated file.                                   *)

InitIO ==
    /\ InitLyrics
    /\ conc = FALSE
    /\ faulty = MaxWriteFailures
    /\ kq = <<NoQuery, NoQuery>>
    /\ kout = <<>>
    /\ apiLog = NoApi
    /\ fin = <<>>
    /\ fout = <<>>

(* The calls of these runs: one query and a casing variant of it. *)
IOQueries == {[title |-> <<"h">>, artist |-> <<"a">>],
              [title |-> <<"H">>, artist |-> <<"a">>]}

NextIO ==
    \E p \in Procs :
        \/ \E q \in IOQueries : GetLyrics(p, q)
        \/ CacheCheck(p)
        \/ SearchRetry(p)
        \/ SearchDone(p)
        \/ Fetch(p)

SpecIO == InitIO /\ [][NextIO]_vars

(* The outcome a call has by its upstream behaviour alone (the branch      *)
(* taken and the lyrics fetched), as the runs without I/O errors give it.  *)
UpstreamOutcome(why, detail) ==
    IF why = "fetched" THEN Return(PyStr(detail)) ELSE Return(PyNone)

NewTags(p) == got[arg[p]] \ prior[p]

(* C11: the value a call returns is decided by its upstream behaviour      *)
(* alone, whether its cache write succeeded, could not open the file or    *)
(* stopped part-way; a failing cache write never reaches the caller.       *)
C11_WriteFailureInvisible ==
    \A p \in Procs :
        Done(p) =>
            /\ result[p].kind = "return"
            /\ \A tag \in NewTags(p) :
                  tag[1] = cause[p] => result[p] = UpstreamOutcome(tag[1], tag[2])

C11_Witness ==
    \E p \in Procs :
        /\ Done(p)
        /\ prior[p] = {}
        /\ <<"fetched", "L1", "dump_failed">> \in got[arg[p]]
        /\ cause[p] = "fetched"
        /\ result[p] = Return(PyStr("L1"))
        /\ ~JsonLoad(cache[KeyOf(p)].text).ok

-----------------------------------------------------------------------------
(* NameNormalizer (src/src/musicbrainz_integration.py): strings are        *)
(* sequences of characters, indices of find() count from 0 as in Python.   *)

MaxNameLen == 3

UpperChar(c) ==
    IF \E u \in DOMAIN LowerTable : LowerTable[u] = c
    THEN CHOOSE u \in DOMAIN LowerTable : LowerTable[u] = c
    ELSE c

Upper(s) == [i \in 1..Len(s) |-> UpperChar(s[i])]

IsSpace(c) == c = " "

RECURSIVE LStrip(_)
LStrip(s) == IF s # <<>> /\ IsSpace(s[1]) THEN LStrip(Tail(s)) ELSE s

RECURSIVE RStrip(_)
RStrip(s) ==
    IF s # <<>> /\ IsSpace(s[Len(s)]) THEN RStrip(SubSeq(s, 1, Len(s) - 1)) ELSE s

(* str.strip() *)
Strip(s) == RStrip(LStrip(s))

OccursAt(s, d, i) == i + Len(d) <= Len(s) /\ SubSeq(s, i + 1, i + Len(d)) = d

(* d in s *)
Contains(s, d) == \E i \in 0..(Len(s) - Len(d)) : OccursAt(s, d, i)

(* s.find(d), for d in s *)
Find(s, d) == CHOOSE i \in 0..(Len(s) - Len(d)) :
                 /\ OccursAt(s, d, i)
                 /\ \A j \in 0..(i - 1) : ~OccursAt(s, d, j)

(* s[:idx] *)
Take(s, idx) == SubSeq(s, 1, IF idx < Len(s) THEN idx ELSE Len(s))

MULTI_ARTIST_DELIMITERS ==
    <<<<" ", "f", "e", "a", "t", "u", "r", "i", "n", "g", " ">>,
      <<" ", "f", "e", "a", "t", ".", " ">>,
      <<" ", "f", "t", ".", " ">>,
      <<" ", "x", " ">>,
      <<" ", "v", "s", " ">>,
      <<" ", "v", "s", ".", " ">>,
      <<",", " ">>,
      <<" ", "a", "n", "d", " ">>,
      <<" ", "&", " ">>,
      <<" ", "(">>,
      <<")">>>>

(* Lines 105-109: one round of the loop over the delimiters. *)
CutAt(res, delimiter) ==
    IF Contains(Lower(res), Lower(delimiter))
    THEN Take(res, Find(Lower(res), Lower(delimiter)))
    ELSE res

RECURSIVE CutAll(_, _)
CutAll(res, i) ==
    IF i > Len(MULTI_ARTIST_DELIMITERS) THEN res
    ELSE CutAll(CutAt(res, MULTI_ARTIST_DELIMITERS[i]), i + 1)

(* Lines 112-113: result.split("(")[0] *)
CutParen(res) ==
    IF Contains(res, <<"(">>) THEN Take(res, Find(res, <<"(">>)) ELSE res

ParseArtistString(artist_string) == Strip(CutParen(CutAll(Strip(artist_string), 1)))

(* Credits drawn for the normalizer: x, then a delimiter form (0: none;    *)
(* the last form closes the parenthesis after y) in lower or upper case,   *)
(* then y, with or without surrounding blanks.                             *)

NameAlphabet == {"a", "x", " ", ",", "I_dot"}

XNames == UNION {[1..k -> NameAlphabet] : k \in 0..MaxNameLen}

YNames == {<<>>, <<" ">>, <<"b">>, <<"x", " ", "c">>, <<"b", " ", "&", " ", "c">>}

Pads == {<<>>, <<" ">>}

NumForms == Len(MULTI_ARTIST_DELIMITERS) - 1

FormOpen(f) == IF f = 0 THEN <<>> ELSE MULTI_ARTIST_DELIMITERS[f]

FormClose(f) == IF f = NumForms THEN MULTI_ARTIST_DELIMITERS[NumForms + 1] ELSE <<>>

ParseInputs ==
    [op : {"parse_artist_string"}, x : XNames, f : 0..NumForms, up : BOOLEAN,
     y : YNames, lp : Pads, rp : Pads]

Credit(in) ==
    in.lp \o in.x \o (IF in.up THEN Upper(FormOpen(in.f)) ELSE FormOpen(in.f))
    \o in.y \o FormClose(in.f) \o in.rp

ParseCall ==
    /\ fout = <<>>
    /\ fin.op = "parse_artist_string"
    /\ fout' = [out |-> ParseArtistString(Credit(fin))]
    /\ UNCHANGED <<lyricsVars, kq, kout, apiLog, fin>>

InitParse ==
    /\ InitLyrics
    /\ conc = FALSE
    /\ faulty = 0
    /\ kq = <<NoQuery, NoQuery>>
    /\ kout = <<>>
    /\ apiLog = NoApi
    /\ fin \in ParseInputs
    /\ fout = <<>>

NextParse == ParseCall

SpecParse == InitParse /\ [][NextParse]_vars

Blank(s) == Strip(s) = <<>>

HasDelimiter(s) ==
    \E i \in 1..Len(MULTI_ARTIST_DELIMITERS) :
        Contains(Lower(s), Lower(MULTI_ARTIST_DELIMITERS[i]))

(* C12: for a name x that holds no delimiter of the table and no           *)
(* parenthesis, any y and any delimiter form in either letter case,        *)
(* parse_artist_string(x + delimiter + y), with or without surrounding     *)
(* blanks, is x trimmed; and parse_artist_string(x) is x trimmed.          *)
C12_PrimaryIsLeftName ==
    (fout # <<>> /\ fin.op = "parse_artist_string")
        => ((/\ ~Blank(fin.x) /\ ~HasDelimiter(fin.x)
             /\ IF fin.f = 0 THEN fin.y = <<>> ELSE ~Blank(fin.y))
                => fout.out = Strip(fin.x))

(* C13: the primary artist of a credit that is not empty or blank is not   *)
(* empty; the empty string is returned only for an empty or blank credit.  *)
C13_PrimaryNotEmpty ==
    (fout # <<>> /\ fin.op = "parse_artist_string")
        => (fout.out = <<>> <=> Blank(Credit(fin)))

-----------------------------------------------------------------------------
(* SimilarityScorer: _calculate_match_score and _levenshtein_distance.     *)
(* Scores are exact fractions <<numerator, denominator>>; the quotients    *)
(* the code compares with 0.8 have denominators far below 2^53, where they *)
(* order as the floating-point values do.                                  *)

MaxScoreLen == 5

Frac(n, d) == <<n, d>>

FracEq(a, b) == a[1] * b[2] = b[1] * a[2]

FracLeq(a, b) == a[1] * b[2] <= b[1] * a[2]

FracLess(a, b) == a[1] * b[2] < b[1] * a[2]

FracHalf(a) == <<a[1], 2 * a[2]>>

Min3(a, b, c) == IF a <= b /\ a <= c THEN a ELSE IF b <= c THEN b ELSE c

Max2(a, b) == IF a >= b THEN a ELSE b

SubstCostAlways(c1, c2) == 1

(* Line 266: (c1 != c2) *)
SubstCost(c1, c2) == IF c1 # c2 THEN 1 ELSE 0

(* Lines 261-267: the inner loop fills current_row from previous_row. *)
RECURSIVE LevCurrentRow(_, _, _, _)
LevCurrentRow(current_row, previous_row, c1, s2) ==
    IF Len(current_row) = Len(s2) + 1 THEN current_row
    ELSE LET j == Len(current_row) - 1
             insertions == previous_row[j + 2] + 1
             deletions == current_row[j + 1] + 1
             substitutions == previous_row[j + 1] + SubstCost(c1, s2[j + 1])
         IN  LevCurrentRow(Append(current_row, Min3(insertions, deletions, substitutions)),
                           previous_row, c1, s2)

(* Lines 259-268: the outer loop over the characters of s1. *)
RECURSIVE LevRows(_, _, _, _)
LevRows(previous_row, s1, s2, i) ==
    IF i = Len(s1) THEN previous_row
    ELSE LevRows(LevCurrentRow(<<i + 1>>, previous_row, s1[i + 1], s2), s1, s2, i + 1)

LevenshteinDistance(s1, s2) ==
    LET long == IF Len(s1) < Len(s2) THEN s2 ELSE s1
        short == IF Len(s1) < Len(s2) THEN s1 ELSE s2
    IN  IF Len(short) = 0 THEN Len(long)
        ELSE LevRows([k \in 1..(Len(short) + 1) |-> k - 1], long, short, 0)[Len(short) + 1]

StartsWith(s, p) == Len(p) <= Len(s) /\ SubSeq(s, 1, Len(p)) = p

SimilarityBandStrict(distance, max_len) ==
    IF FracLess(Frac(8, 10), Frac(max_len - distance, max_len))
    THEN FracHalf(Frac(max_len - distance, max_len))
    ELSE Frac(0, 1)

(* Lines 243-248: similarity = 1.0 - distance / max_len and its band. *)
SimilarityBand(distance, max_len) ==
    IF FracLeq(Frac(8, 10), Frac(max_len - distance, max_len))
    THEN FracHalf(Frac(max_len - distance, max_len))
    ELSE Frac(0, 1)

CalculateMatchScoreSubstringPasses(query, candidate) ==
    LET query_lower == Lower(query)
        candidate_lower == Lower(candidate)
        distance == LevenshteinDistance(query_lower, candidate_lower)
        max_len == Max2(Len(query_lower), Len(candidate_lower))
    IN  IF query_lower = candidate_lower THEN Frac(1, 1)
        ELSE IF StartsWith(candidate_lower, query_lower) THEN Frac(9, 10)
        ELSE IF Contains(candidate_lower, query_lower) THEN Frac(8, 10)
        ELSE IF max_len = 0 THEN Frac(1, 1)
        ELSE SimilarityBand(distance, max_len)

CalculateMatchScore(query, candidate) ==
    LET query_lower == Lower(query)
        candidate_lower == Lower(candidate)
        distance == LevenshteinDistance(query_lower, candidate_lower)
        max_len == Max2(Len(query_lower), Len(candidate_lower))
    IN  IF query_lower = candidate_lower THEN Frac(1, 1)
        ELSE IF StartsWith(candidate_lower, query_lower) THEN Frac(9, 10)
        ELSE IF Contains(candidate_lower, query_lower) THEN Frac(7, 10)
        ELSE IF max_len = 0 THEN Frac(1, 1)
        ELSE SimilarityBand(distance, max_len)

(* Inputs: names over two letters, the query optionally in upper case. *)
ScoreAlphabet == {"a", "b"}

ScoreStrings == UNION {[1..k -> ScoreAlphabet] : k \in 0..MaxScoreLen}

ScoreInputs ==
    [op : {"_calculate_match_score"},
     query : ScoreStrings, candidate : ScoreStrings, up : BOOLEAN]
    \cup [op : {"_levenshtein_distance"},
          query : ScoreStrings, candidate : ScoreStrings, up : {FALSE}]

QueryOf(in) == IF in.up THEN Upper(in.query) ELSE in.query

ScoreCall ==
    /\ fout = <<>>
    /\ fin.op = "_calculate_match_score"
    /\ fout' = [out |-> CalculateMatchScore(QueryOf(fin), fin.candidate)]
    /\ UNCHANGED <<lyricsVars, kq, kout, apiLog, fin>>

DistanceCall ==
    /\ fout = <<>>
    /\ fin.op = "_levenshtein_distance"
    /\ fout' = [out |-> LevenshteinDistance(QueryOf(fin), fin.candidate)]
    /\ UNCHANGED <<lyricsVars, kq, kout, apiLog, fin>>

InitScore ==
    /\ InitLyrics
    /\ conc = FALSE
    /\ faulty = 0
    /\ kq = <<NoQuery, NoQuery>>
    /\ kout = <<>>
    /\ apiLog = NoApi
    /\ fin \in ScoreInputs
    /\ fout = <<>>

NextScore == ScoreCall \/ DistanceCall

SpecScore == InitScore /\ [][NextScore]_vars

(* The strings one insertion, deletion or substitution away from u.  A     *)
(* shortest edit script can delete first and insert last, so it never      *)
(* passes through a string longer than both of its ends.                   *)
RemoveAt(u, i) == SubSeq(u, 1, i - 1) \o SubSeq(u, i + 1, Len(u))

InsertAt(u, i, c) == SubSeq(u, 1, i) \o <<c>> \o SubSeq(u, i + 1, Len(u))

OneEdit(u) ==
    {RemoveAt(u, i) : i \in 1..Len(u)}
    \cup {[u EXCEPT ![i] = c] : i \in 1..Len(u), c \in ScoreAlphabet}
    \cup (IF Len(u) < MaxScoreLen
          THEN {InsertAt(u, i, c) : i \in 0..Len(u), c \in ScoreAlphabet}
          ELSE {})

RECURSIVE WithinEdits(_, _)
WithinEdits(s, k) ==
    IF k = 0 THEN {s}
    ELSE LET R == WithinEdits(s, k - 1) IN R \cup UNION {OneEdit(u) : u \in R}

EditBalls == [s \in ScoreStrings |-> [k \in 0..MaxScoreLen |-> WithinEdits(s, k)]]

(* The least number of single-character edits that turn s into t. *)
EditDistance(s, t) ==
    CHOOSE k \in 0..Max2(Len(s), Len(t)) :
        /\ t \in EditBalls[s][k]
        /\ k > 0 => t \notin EditBalls[s][k - 1]

FirstRule(q, c) ==
    LET m == Max2(Len(q), Len(c))
        d == EditDistance(q, c)
    IN  IF q = c THEN Frac(1, 1)
        ELSE IF StartsWith(c, q) THEN Frac(9, 10)
        ELSE IF Contains(c, q) THEN Frac(7, 10)
        ELSE IF 10 * (m - d) >= 8 * m THEN Frac(m - d, 2 * m)
        ELSE Frac(0, 1)

InBand(q, c) ==
    /\ q # c /\ ~StartsWith(c, q) /\ ~Contains(c, q)
    /\ 10 * (Max2(Len(q), Len(c)) - EditDistance(q, c)) >= 8 * Max2(Len(q), Len(c))

C15_DistanceIsMinimalEdits ==
    (fout # <<>> /\ fin.op = "_levenshtein_distance")
        => LET s1 == QueryOf(fin)
               s2 == fin.candidate
           IN  /\ fout.out = EditDistance(s1, s2)
               /\ s1 = s2 => fout.out = 0
               /\ s1 = <<>> => fout.out = Len(s2)
               /\ s2 = <<>> => fout.out = Len(s1)

C15_Witness ==
    /\ fout # <<>> /\ fin.op = "_levenshtein_distance"
    /\ 0 < Len(fin.query) /\ Len(fin.query) < Len(fin.candidate)
    /\ fout.out = 2
    /\ \E i \in 1..Len(fin.query) : fin.query[i] = fin.candidate[i]

-----------------------------------------------------------------------------
(* Genre extraction: _extract_genres_from_tags.  An artist record has an   *)
(* optional "tag-list" of tag items, each with an optional "name", and an  *)
(* optional "genre" string.                                                *)

MaxTags == 2

(* The characters used, in ascending code point order. *)
CodeOrder == <<" ", ";", "A", "B", "C", "a", "b", "c">>

CharCode(c) == CHOOSE i \in 1..Len(CodeOrder) : CodeOrder[i] = c

(* a < b for str *)
RECURSIVE StrLess(_, _)
StrLess(a, b) ==
    IF b = <<>> THEN FALSE
    ELSE IF a = <<>> THEN TRUE
    ELSE IF a[1] # b[1] THEN CharCode(a[1]) < CharCode(b[1])
    ELSE StrLess(Tail(a), Tail(b))

Range(s) == {s[i] : i \in 1..Len(s)}

(* sorted(list(set(genres))) *)
RECURSIVE SortSet(_)
SortSet(S) ==
    IF S = {} THEN <<>>
    ELSE LET least == CHOOSE x \in S : \A y \in S : x = y \/ StrLess(x, y)
         IN  <<least>> \o SortSet(S \ {least})

(* str.split(sep) for a one-character separator *)
RECURSIVE SplitOn(_, _)
SplitOn(s, sep) ==
    IF ~Contains(s, <<sep>>) THEN <<s>>
    ELSE <<Take(s, Find(s, <<sep>>))>>
         \o SplitOn(SubSeq(s, Find(s, <<sep>>) + 2, Len(s)), sep)

(* tag_item.get("name", "") *)
TagItemName(tag_item) == IF tag_item.has_name THEN tag_item.name ELSE <<>>

TagNameUntrimmed(tag_item) == Lower(TagItemName(tag_item))

(* Line 293 *)
TagName(tag_item) == Strip(Lower(TagItemName(tag_item)))

(* Lines 291-297: the loop over the tag items. *)
RECURSIVE TagLoop(_, _)
TagLoop(tags, genres) ==
    IF tags = <<>> THEN genres
    ELSE LET tag_name == TagName(Head(tags))
         IN  TagLoop(Tail(tags),
                     IF tag_name # <<>> /\ Len(tag_name) > 2
                     THEN Append(genres, tag_name) ELSE genres)

(* Lines 300-303: the fallback to the genre field. *)
GenreFallback(artist_data) ==
    LET genre_field == IF artist_data.has_genre THEN artist_data.genre ELSE <<>>
        parts == SplitOn(genre_field, ";")
    IN  IF genre_field # <<>>
        THEN [i \in 1..Len(parts) |-> Lower(Strip(parts[i]))]
        ELSE <<>>

ExtractGenresFromTags(artist_data) ==
    LET tags == IF artist_data.has_tags THEN artist_data.tags ELSE <<>>
        genres == TagLoop(tags, <<>>)
    IN  SortSet(Range(IF genres = <<>> THEN GenreFallback(artist_data) ELSE genres))

TagNameTexts ==
    {<<>>, <<"a", "b">>, <<"a", "b", "c">>, <<"A", "B", "C">>, <<" ", "a", " ">>,
     <<" ", "a", "b", "c">>, <<"b", "b", "c">>}

TagItems ==
    [has_name : {TRUE}, name : TagNameTexts] \cup [has_name : {FALSE}, name : {<<>>}]

TagLists == UNION {[1..k -> TagItems] : k \in 0..MaxTags}

GenreTexts ==
    {<<>>, <<"c", "c", "c">>, <<"b", ";", "a">>, <<";">>,
     <<" ", "B", " ", ";", "a", ";", "b">>}

ArtistRecords ==
    [has_tags : {TRUE}, tags : TagLists, has_genre : {TRUE}, genre : GenreTexts]
    \cup [has_tags : {TRUE}, tags : TagLists, has_genre : {FALSE}, genre : {<<>>}]
    \cup [has_tags : {FALSE}, tags : {<<>>}, has_genre : {TRUE}, genre : GenreTexts]
    \cup [has_tags : {FALSE}, tags : {<<>>}, has_genre : {FALSE}, genre : {<<>>}]

GenreInputs == [op : {"_extract_genres_from_tags"}, artist_data : ArtistRecords]

GenresCall ==
    /\ fout = <<>>
    /\ fin.op = "_extract_genres_from_tags"
    /\ fout' = [out |-> ExtractGenresFromTags(fin.artist_data)]
    /\ UNCHANGED <<lyricsVars, kq, kout, apiLog, fin>>

InitGenres ==
    /\ InitLyrics
    /\ conc = FALSE
    /\ faulty = 0
    /\ kq = <<NoQuery, NoQuery>>
    /\ kout = <<>>
    /\ apiLog = NoApi
    /\ fin \in GenreInputs
    /\ fout = <<>>

NextGenres == GenresCall

SpecGenres == InitGenres /\ [][NextGenres]_vars

StrictlyAscending(out) == \A i \in 1..(Len(out) - 1) : StrLess(out[i], out[i + 1])

AllLowerCase(out) == \A i \in 1..Len(out) : Lower(out[i]) = out[i]

(* The tag names that count, lower-cased only, or lower-cased and trimmed. *)
LongTagNames(artist_data, trimmed) ==
    {n \in {IF trimmed THEN Strip(Lower(TagItemName(artist_data.tags[i])))
            ELSE Lower(TagItemName(artist_data.tags[i])) :
            i \in 1..Len(artist_data.tags)} : Len(n) > 2}

GenreFieldNames(artist_data) ==
    IF artist_data.has_genre /\ artist_data.genre # <<>>
    THEN {Lower(Strip(part)) : part \in Range(SplitOn(artist_data.genre, ";"))}
    ELSE {}

GenresFrom(out, artist_data, trimmed) ==
    /\ StrictlyAscending(out)
    /\ AllLowerCase(out)
    /\ IF LongTagNames(artist_data, trimmed) # {}
       THEN Range(out) = LongTagNames(artist_data, trimmed)
       ELSE Range(out) = GenreFieldNames(artist_data)

(* C18 as stated: the result is strictly ascending and lower-case; if some *)
(* tag name is longer than 2 characters after lower-casing, the result is  *)
(* exactly the set of such tag names and the genre field is ignored,       *)
(* otherwise it comes from the semicolon-delimited genre field and is      *)
(* empty when neither is present.                                          *)
C18_GenresFromLowerCasedTags ==
    (fout # <<>> /\ fin.op = "_extract_genres_from_tags")
        => GenresFrom(fout.out, fin.artist_data, FALSE)

(* C18 amended: the same with tag names lower-cased and trimmed of         *)
(* surrounding whitespace before their length is taken; the result holds   *)
(* the trimmed names.                                                      *)
C18_GenresFromTrimmedTags ==
    (fout # <<>> /\ fin.op = "_extract_genres_from_tags")
        => GenresFrom(fout.out, fin.artist_data, TRUE)

C18_Witness ==
    /\ fout # <<>> /\ fin.op = "_extract_genres_from_tags"
    /\ fin.artist_data.has_genre /\ fin.artist_data.genre # <<>>
    /\ \E i \in 1..Len(fin.artist_data.tags) :
          TagItemName(fin.artist_data.tags[i]) = <<" ", "a", "b", "c">>
    /\ \E i \in 1..Len(fin.artist_data.tags) :
          TagItemName(fin.artist_data.tags[i]) = <<"A", "B", "C">>
    /\ fout.out = <<<<"a", "b", "c">>>>

-----------------------------------------------------------------------------
(* ArtistResolver: resolve_artist.  One call searches MusicBrainz, scores  *)
(* the candidates, and fetches the detail of the best one.  The upstream   *)
(* behaviour of the two calls is an input of the call.                     *)

MaxCands == 3

UpstreamOk == [kind |-> "ok", status |-> 200]

UpstreamStatuses == {400, 404, 429, 500, 503}

UpstreamFailures ==
    [kind : {"http"}, status : UpstreamStatuses] \cup {[kind |-> "connection", status |-> 0]}

(* MusicBrainz answers a client over its rate with 503; 429 is the status  *)
(* of HTTP for the same condition.                                         *)
IsRateLimitResponse(f) == f.kind = "http" /\ f.status \in {429, 503}

(* What mb.search_artists and mb.get_artist_by_id raise: ResponseError for *)
(* a status the client does not retry (400, 404, 411), NetworkError once   *)
(* its retries of any other status or of a connection failure run out.     *)
MbException(f) ==
    IF f.kind = "http" /\ f.status \in {400, 404, 411}
    THEN [type |-> "ResponseError", status |-> f.status]
    ELSE [type |-> "NetworkError", status |-> f.status]

(* Lines 192-201: the two except clauses; str(e) of a ResponseError names  *)
(* the HTTP status of its cause.                                           *)
HandleException(e) ==
    IF e.type = "ResponseError"
    THEN IF e.status = 429 THEN "RateLimitError" ELSE "APIError"
    ELSE "APIError"

NoArtist == [musicbrainz_id |-> 0, canonical_name |-> <<>>, genres |-> <<>>]

ResolveReturn(present, v, id) ==
    [kind |-> "return", present |-> present, value |-> v, exc |-> "", fetched |-> id]

ResolveRaise(e, id) ==
    [kind |-> "raise", present |-> FALSE, value |-> NoArtist,
     exc |-> HandleException(e), fetched |-> id]

BetterOrEqual(score, best_score) == FracLeq(best_score, score)

(* Line 161: score > best_score *)
Better(score, best_score) == FracLess(best_score, score)

(* Lines 154-163: the loop over the candidates; a candidate's identity is  *)
(* its position in the list, match 0 is None.                              *)
RECURSIVE BestLoop(_, _, _, _)
BestLoop(primary_artist, cands, i, best) ==
    IF i > Len(cands) THEN best
    ELSE LET canonical_name == cands[i]
             score == CalculateMatchScore(primary_artist, canonical_name)
         IN  BestLoop(primary_artist, cands, i + 1,
                      IF Better(score, best.score)
                      THEN [match |-> i, score |-> score, canonical_name |-> canonical_name]
                      ELSE [best EXCEPT !.canonical_name = canonical_name])

ResolveOutcome(in) ==
    LET primary_artist == ParseArtistString(in.artist_name)
        best == BestLoop(primary_artist, in.cands, 1,
                         [match |-> 0, score |-> Frac(0, 1), canonical_name |-> <<>>])
    IN  IF in.search.kind # "ok" THEN ResolveRaise(MbException(in.search), 0)
        ELSE IF in.cands = <<>> THEN ResolveReturn(FALSE, NoArtist, 0)
        ELSE IF FracLess(best.score, in.threshold) THEN ResolveReturn(FALSE, NoArtist, 0)
        ELSE IF best.match = 0 THEN ResolveRaise([type |-> "TypeError", status |-> 0], 0)
        ELSE IF in.detail.kind # "ok" THEN ResolveRaise(MbException(in.detail), best.match)
        ELSE ResolveReturn(TRUE,
                           [musicbrainz_id |-> best.match,
                            canonical_name |-> IF in.artist.has_name THEN in.artist.name
                                               ELSE best.canonical_name,
                            genres |-> ExtractGenresFromTags(in.artist)],
                           best.match)

ResolveCredits ==
    {<<>>, <<"a">>, <<"b", " ", "&", " ", "a">>, <<"a", "a", "a", "a", "a">>}

CandNames == {<<>>, <<"a">>, <<"A">>, <<"a", "b">>, <<"a", "a", "a", "a", "b">>}

CandLists == UNION {[1..k -> CandNames] : k \in 0..MaxCands}

Thresholds == {Frac(0, 1), Frac(4, 10), Frac(8, 10), Frac(1, 1)}

DetailRecords ==
    {[has_name |-> TRUE, name |-> <<"A", "b">>, has_tags |-> TRUE,
      tags |-> <<[has_name |-> TRUE, name |-> <<"A", "B", "C">>]>>,
      has_genre |-> FALSE, genre |-> <<>>],
     [has_name |-> FALSE, name |-> <<>>, has_tags |-> FALSE, tags |-> <<>>,
      has_genre |-> FALSE, genre |-> <<>>]}

ResolveInputs ==
    [op : {"resolve_artist"}, artist_name : ResolveCredits, threshold : Thresholds,
     search : {UpstreamOk}, cands : CandLists,
     detail : {UpstreamOk}, artist : DetailRecords]
    \cup [op : {"resolve_artist"}, artist_name : ResolveCredits, threshold : Thresholds,
          search : {UpstreamOk}, cands : CandLists,
          detail : UpstreamFailures, artist : {CHOOSE r \in DetailRecords : ~r.has_name}]
    \cup [op : {"resolve_artist"}, artist_name : ResolveCredits, threshold : Thresholds,
          search : UpstreamFailures, cands : {<<>>},
          detail : {UpstreamOk}, artist : {CHOOSE r \in DetailRecords : ~r.has_name}]

ResolveArtist ==
    /\ fout = <<>>
    /\ fin.op = "resolve_artist"
    /\ fout' = ResolveOutcome(fin)
    /\ UNCHANGED <<lyricsVars, kq, kout, apiLog, fin>>

InitResolve ==
    /\ InitLyrics
    /\ conc = FALSE
    /\ faulty = 0
    /\ kq = <<NoQuery, NoQuery>>
    /\ kout = <<>>
    /\ apiLog = NoApi
    /\ fin \in ResolveInputs
    /\ fout = <<>>

NextResolve == ResolveArtist

SpecResolve == InitResolve /\ [][NextResolve]_vars

Resolved == fout # <<>> /\ fin.op = "resolve_artist"

ScoreOf(i) == CalculateMatchScore(ParseArtistString(fin.artist_name), fin.cands[i])

IsMaxScore(i) == \A j \in 1..Len(fin.cands) : FracLeq(ScoreOf(j), ScoreOf(i))

ExactMatch(i) == Lower(fin.cands[i]) = Lower(ParseArtistString(fin.artist_name))

(* C16: when resolve_artist goes on to fetch artist detail, it fetches the *)
(* earliest candidate, in search-result order, whose score is the maximum  *)
(* over all candidates; so a candidate whose name equals the query         *)
(* ignoring case is chosen wherever it stands in the list.                 *)
C16_FetchesEarliestBest ==
    (Resolved /\ fout.fetched # 0)
        => /\ fout.fetched \in 1..Len(fin.cands)
           /\ IsMaxScore(fout.fetched)
           /\ \A j \in 1..(fout.fetched - 1) : ~IsMaxScore(j)
           /\ (\E i \in 1..Len(fin.cands) : ExactMatch(i)) => ExactMatch(fout.fetched)

C16_Witness ==
    /\ Resolved /\ fout.fetched = 2
    /\ Len(fin.cands) = 3
    /\ ~ExactMatch(1) /\ ExactMatch(2) /\ ExactMatch(3)
    /\ fin.cands[2] # fin.cands[3]
    /\ fout.kind = "return" /\ fout.present /\ fout.value.musicbrainz_id = 2

UpstreamSucceeded ==
    /\ fin.search.kind = "ok"
    /\ fin.detail.kind = "ok"

BelowThreshold ==
    \A i \in 1..Len(fin.cands) : FracLess(ScoreOf(i), fin.threshold)

(* C17: for every threshold in [0,1], 0 included, and every candidate      *)
(* list, when the upstream calls succeed resolve_artist returns absent     *)
(* exactly when the list is empty or the maximum score is below the        *)
(* threshold, otherwise returns a resolved artist, and raises no error.    *)
C17_AbsentIffBelowThreshold ==
    (Resolved /\ UpstreamSucceeded)
        => /\ fout.kind = "return"
           /\ fout.present <=> ~(fin.cands = <<>> \/ BelowThreshold)

UpstreamFailure ==
    IF fin.search.kind # "ok" THEN fin.search
    ELSE IF fout.fetched # 0 /\ fin.detail.kind # "ok" THEN fin.detail
    ELSE UpstreamOk

(* C19: when an upstream call inside resolve_artist fails, the call raises *)
(* RateLimitError if and only if the failure was a rate-limit response and *)
(* APIError for every other upstream failure; it returns neither absent    *)
(* nor a result.                                                           *)
C19_RateLimitIffRateLimited ==
    (Resolved /\ UpstreamFailure # UpstreamOk)
        => /\ fout.kind = "raise"
           /\ fout.exc = IF IsRateLimitResponse(UpstreamFailure)
                         THEN "RateLimitError" ELSE "APIError"

-----------------------------------------------------------------------------
(* One request through the retrying session (_create_session of the        *)
(* Genius client, RetrySession of the MusicBrainz client: both mount       *)
(* Retry(total = 3) on the status list above).  fout.log holds the status  *)
(* of every attempt made so far, 0 for a connection failure.               *)

RequestStatuses == {200, 404, 0} \cup StatusForcelist

Attempt(st) == [status |-> st, hits |-> <<>>]

Pending == fin.op = "request" /\ fout.outcome = "pending"

(* An attempt after which the session sleeps and tries again. *)
RequestRetry ==
    /\ Pending
    /\ \E st \in RequestStatuses :
         /\ SessionGet(Attempt(st), Len(fout.log)).kind = "retry"
         /\ fout' = [fout EXCEPT !.log = Append(@, st)]
    /\ UNCHANGED <<lyricsVars, kq, kout, apiLog, fin>>

(* The attempt that ends the request, with a response or an exception. *)
RequestDone ==
    /\ Pending
    /\ \E st \in RequestStatuses :
         LET res == SessionGet(Attempt(st), Len(fout.log))
         IN  /\ res.kind # "retry"
             /\ fout' = [log |-> Append(fout.log, st),
                         outcome |-> IF res.kind = "response" THEN "response" ELSE "failure"]
    /\ UNCHANGED <<lyricsVars, kq, kout, apiLog, fin>>

InitRetry ==
    /\ InitLyrics
    /\ conc = FALSE
    /\ faulty = 0
    /\ kq = <<NoQuery, NoQuery>>
    /\ kout = <<>>
    /\ apiLog = NoApi
    /\ fin = [op |-> "request"]
    /\ fout = [log |-> <<>>, outcome |-> "pending"]

NextRetry == RequestRetry \/ RequestDone

(* The session takes its next step: sleeps of the backoff are finite. *)
SpecRetry == InitRetry /\ [][NextRetry]_vars /\ WF_vars(NextRetry)

RetriedOnlyWhenTransient ==
    \A i \in 1..(Len(fout.log) - 1) : Retryable(Attempt(fout.log[i]))

(* C20 as stated: a request is attempted at most 3 times in total, and a   *)
(* further attempt follows only a status in {429, 500, 502, 503, 504} or a *)
(* connection failure.                                                     *)
C20_AtMostThreeAttempts ==
    /\ Len(fout.log) <= 3
    /\ RetriedOnlyWhenTransient

AttemptsBounded ==
    /\ Len(fout.log) <= MAX_RETRIES + 1
    /\ RetriedOnlyWhenTransient
    /\ Len(fout.log) = MAX_RETRIES + 1 => ~Pending
    /\ fout.outcome = "response" => ~Retryable(Attempt(fout.log[Len(fout.log)]))

(* C20 amended: a request is attempted at most 4 times in total (the first *)
(* attempt and at most 3 retries), a further attempt follows only a status *)
(* in {429, 500, 502, 503, 504} or a connection failure, and the request   *)
(* always ends with a response or a failure.                               *)
C20_AtMostFourAttemptsAndEnds == [](AttemptsBounded) /\ <>(~Pending)

C20_Witness ==
    /\ fin.op = "request"
    /\ Len(fout.log) = 4
    /\ fout.log[1] = 503 /\ fout.log[2] = 0 /\ fout.log[3] = 429 /\ fout.log[4] = 200
    /\ fout.outcome = "response"

-----------------------------------------------------------------------------
(* The credit normalizer of the lyrics path: _extract_primary_artist of    *)
(* genius_integration.py, and the query search_song builds from it.        *)

GeniusDelimiters ==
    <<<<" ", "f", "e", "a", "t", "u", "r", "i", "n", "g", " ">>,
      <<" ", "f", "e", "a", "t", ".", " ">>,
      <<" ", "f", "t", ".", " ">>,
      <<" ", "x", " ">>,
      <<" ", "v", "s", " ">>,
      <<" ", "v", "s", ".", " ">>,
      <<" ", "&", " ">>,
      <<" ", "(", "f", "e", "a", "t">>,
      <<",", " ">>,
      <<",", " ", "f", "e", "a", "t">>>>

(* Lines 311-316: the first delimiter of the list found in the credit cuts *)
(* it, and the loop ends.                                                  *)
RECURSIVE CutFirst(_, _)
CutFirst(artist, i) ==
    IF i > Len(GeniusDelimiters) THEN artist
    ELSE IF Contains(Lower(artist), Lower(GeniusDelimiters[i]))
    THEN Strip(Take(artist, Find(Lower(artist), Lower(GeniusDelimiters[i]))))
    ELSE CutFirst(artist, i + 1)

ExtractPrimaryArtist(artist_string) == CutFirst(Strip(artist_string), 1)

(* Line 136: the "q" parameter of the search request. *)
SearchQuery(song_title, artist_name) ==
    song_title \o <<" ">> \o ExtractPrimaryArtist(artist_name)

SongTitles == {<<"t">>}

ExtractInputs ==
    [op : {"_extract_primary_artist"}, title : SongTitles, x : XNames, f : 0..NumForms,
     up : BOOLEAN, y : YNames, lp : Pads, rp : Pads]

ExtractCall ==
    /\ fout = <<>>
    /\ fin.op = "_extract_primary_artist"
    /\ fout' = [out |-> ExtractPrimaryArtist(Credit(fin)),
                q |-> SearchQuery(fin.title, Credit(fin))]
    /\ UNCHANGED <<lyricsVars, kq, kout, apiLog, fin>>

InitExtract ==
    /\ InitLyrics
    /\ conc = FALSE
    /\ faulty = 0
    /\ kq = <<NoQuery, NoQuery>>
    /\ kout = <<>>
    /\ apiLog = NoApi
    /\ fin \in ExtractInputs
    /\ fout = <<>>

NextExtract == ExtractCall

SpecExtract == InitExtract /\ [][NextExtract]_vars

(* C21: for every credit c, _extract_primary_artist(c) of the lyrics path  *)
(* equals parse_artist_string(c) of the artist path, so the query sent by  *)
(* search_song is title + " " + that primary artist.                       *)
C21_SameNormalizer ==
    (fout # <<>> /\ fin.op = "_extract_primary_artist")
        => /\ fout.out = ParseArtistString(Credit(fin))
           /\ fout.q = fin.title \o <<" ">> \o ParseArtistString(Credit(fin))

-----------------------------------------------------------------------------
(* The algorithm of the NameNormalizer as specified, over a delimiter      *)
(* table: an occurrence of a delimiter is a piece of the current string    *)
(* that equals it ignoring case.                                           *)

OccurrencesOf(s, d) ==
    {k \in 0..(Len(s) - Len(d)) : Lower(SubSeq(s, k + 1, k + Len(d))) = Lower(d)}

Least(S) == CHOOSE k \in S : \A j \in S : k <= j

BeforeFirst(s, d) ==
    IF OccurrencesOf(s, d) = {} THEN s ELSE SubSeq(s, 1, Least(OccurrencesOf(s, d)))

RECURSIVE TruncateAll(_, _, _)
TruncateAll(s, table, i) ==
    IF i > Len(table) THEN s
    ELSE TruncateAll(BeforeFirst(s, table[i]), table, i + 1)

SpecifiedAlgorithm(table, s) ==
    Strip(BeforeFirst(TruncateAll(Strip(s), table, 1), <<"(">>))

(* The tables the specified order can be read as: the six delimiters that  *)
(* join two artists, then " & ", " and " and ", " in any order, then the   *)
(* open parenthesis with or without its leading blank, then ")".           *)
JoinDelimiters == SubSeq(MULTI_ARTIST_DELIMITERS, 1, 6)

ListDelimiters == {MULTI_ARTIST_DELIMITERS[i] : i \in 7..9}

ListOrders ==
    {o \in [1..3 -> ListDelimiters] : \A i, j \in 1..3 : o[i] = o[j] => i = j}

SpecifiedTables ==
    {JoinDelimiters \o o \o <<open, <<")">>>> :
        o \in ListOrders, open \in {<<" ", "(">>, <<"(">>}}

(* C22: for every credit, parse_artist_string returns what the specified   *)
(* algorithm returns: trim, visit the delimiters in priority order, for    *)
(* each one found ignoring case truncate to the part before its first      *)
(* occurrence and keep scanning, finally cut at a remaining "(" and trim.  *)
(* The statement is taken for whichever order of " & ", " and " and ", "   *)
(* fits the result.                                                        *)
C22_SpecifiedAlgorithm ==
    (fout # <<>> /\ fin.op = "parse_artist_string")
        => \E table \in SpecifiedTables :
              fout.out = SpecifiedAlgorithm(table, Credit(fin))

-----------------------------------------------------------------------------
(* The order of the steps inside one get_lyrics call.                      *)

(* The call found a record under its fingerprint at the cache check. *)
SawHit(p) ==
    /\ pc[p] \notin {"idle", "check"}
    /\ ReadCache([k \in {"seen"} |-> seen[p]], "seen").ty # "NoneType"

StepsInOrder(p) ==
    /\ nSearch[p] <= 1 /\ nFetch[p] <= 1 /\ nWrite[p] <= 1
    /\ SawHit(p) => (Done(p) /\ nSearch[p] = 0 /\ nFetch[p] = 0 /\ nWrite[p] = 0
                     /\ attempts[p] = 0)
    /\ pc[p] = "check" => (nSearch[p] = 0 /\ nFetch[p] = 0 /\ nWrite[p] = 0)
    /\ (nFetch[p] = 1 \/ pc[p] = "fetch") => (nSearch[p] = 1 /\ song[p] \in Hits)
    /\ nWrite[p] = 1 => (nSearch[p] = 1 /\ Done(p))

PcOrder ==
    {<<"idle", "check">>, <<"done", "check">>, <<"check", "done">>, <<"check", "search">>,
     <<"search", "fetch">>, <<"search", "done">>, <<"fetch", "done">>}

StepOrder(p) ==
    /\ pc'[p] # pc[p] => <<pc[p], pc'[p]>> \in PcOrder
    /\ (nSearch'[p] > nSearch[p] \/ attempts'[p] > attempts[p]) => pc[p] = "search"
    /\ nFetch'[p] > nFetch[p] => (pc[p] = "fetch" /\ nSearch[p] = 1)
    /\ nWrite'[p] > nWrite[p] =>
          (pc[p] \in {"search", "fetch"} /\ pc'[p] = "done" /\ nSearch'[p] = 1)

WritesAreCounted == cache' # cache => \E p \in Procs : nWrite'[p] > nWrite[p]

(* C23: within every get_lyrics call the steps occur in the order cache    *)
(* check, search, fetch, cache store: no search or fetch request follows a *)
(* cache hit, a fetch follows only a search of the same call that returned *)
(* a hit, a call makes at most one search, one fetch and one cache write,  *)
(* and the cache write never precedes the search result.                   *)
C23_StepsInOrder ==
    /\ [](\A p \in Procs : StepsInOrder(p))
    /\ [][WritesAreCounted /\ \A p \in Procs : StepOrder(p)]_vars

C23_Witness ==
    \E p \in Procs :
        /\ Done(p)
        /\ attempts[p] = MAX_RETRIES + 1
        /\ nSearch[p] = 1 /\ nFetch[p] = 1 /\ nWrite[p] = 1
        /\ cause[p] = "fetched"
        /\ ~SawHit(p)

-----------------------------------------------------------------------------
(* Two get_lyrics calls side by side on one fingerprint, without locking:  *)
(* each process makes one call, and the steps of the two interleave        *)
(* freely, the open and the close of a cache write included.               *)

(* The record a call holds in its write buffer between open and close:     *)
(* the lyrics entry of lines 270-275 or the marker of lines 260 and 281.   *)
BufferedData(p) ==
    IF result[p].val.ty = "str"
    THEN LyricsRecord(result[p].val.v, song[p])
    ELSE NotFoundMarker

(* Lines 110-111, the end of the with block: the dump reaches the file. *)
WriteFlush(p) ==
    /\ pc[p] = "flush"
    /\ cache' = [cache EXCEPT ![KeyOf(p)] = CloseAfterWrite(@, BufferedData(p))]
    /\ pc' = [pc EXCEPT ![p] = "done"]
    /\ UNCHANGED <<arg, seen, attempts, only429, song, cause, result, nSearch,
                   nFetch, nWrite, prior, got, calls, conc, faulty,
                   kq, kout, apiLog, fin, fout>>

ConcQueries == IOQueries

InitConc ==
    /\ InitLyrics
    /\ conc = TRUE
    /\ faulty = 0
    /\ kq = <<NoQuery, NoQuery>>
    /\ kout = <<>>
    /\ apiLog = NoApi
    /\ fin = <<>>
    /\ fout = <<>>

NextConc ==
    \E p \in Procs :
        \/ \E q \in ConcQueries : pc[p] = "idle" /\ GetLyrics(p, q)
        \/ CacheCheck(p)
        \/ SearchRetry(p)
        \/ SearchDone(p)
        \/ Fetch(p)
        \/ WriteFlush(p)

SpecConc == InitConc /\ [][NextConc]_vars

BothFinished == \A p \in Procs : Done(p)

Wrote(p) == nWrite[p] = 1

(* C24: when two calls on one fingerprint have run side by side and both   *)
(* have finished, each call that missed the cache returned the outcome of  *)
(* its own upstream result, and the stored entry is exactly the entry one  *)
(* of the two calls wrote, never a mixture of the two.                     *)
C24_LastWriteWins ==
    BothFinished =>
        /\ \A p \in Procs :
              cause[p] # "cache_hit" =>
                  /\ result[p].kind = "return"
                  /\ \E tag \in got[arg[p]] :
                        /\ tag[1] = cause[p]
                        /\ result[p] = UpstreamOutcome(tag[1], tag[2])
        /\ (\E p \in Procs : Wrote(p)) =>
              \E p \in Procs :
                  /\ Wrote(p)
                  /\ cache[KeyOf(p)] = File(JsonDump(BufferedData(p)))

(* C25: in every result resolve_artist returns, canonical_name belongs to  *)
(* the artist of musicbrainz_id: it is the name of the detail record       *)
(* fetched for the selected candidate or, when that record has no name,    *)
(* the name of the selected candidate itself, never another candidate's.   *)
C25_NameOfSelectedArtist ==
    (Resolved /\ fout.kind = "return" /\ fout.present)
        => /\ fout.value.musicbrainz_id = fout.fetched
           /\ fout.value.canonical_name =
                 IF fin.artist.has_name THEN fin.artist.name
                 ELSE fin.cands[fout.value.musicbrainz_id]

(* Line 120: confidence_threshold: float = 0.8 *)
DefaultThreshold == Frac(8, 10)

PrefixMatch(i) ==
    \/ ExactMatch(i)
    \/ StartsWith(Lower(fin.cands[i]), Lower(ParseArtistString(fin.artist_name)))

(* C26: with the default threshold 0.8, resolve_artist returns a resolved  *)
(* artist only when the name of the selected candidate, ignoring case,     *)
(* equals or starts with the normalized query; when no candidate of the    *)
(* list does (the best match is by substring, 0.7, or by edit distance,    *)
(* at most 0.5), the call returns absent.                                  *)
C26_DefaultThresholdNeedsPrefix ==
    (Resolved /\ fin.threshold = DefaultThreshold)
        => /\ (fout.kind = "return" /\ fout.present)
                 => /\ fout.value.musicbrainz_id \in 1..Len(fin.cands)
                    /\ PrefixMatch(fout.value.musicbrainz_id)
           /\ (fin.search.kind = "ok" /\ \A i \in 1..Len(fin.cands) : ~PrefixMatch(i))
                 => /\ fout.kind = "return"
                    /\ ~fout.present
                    /\ fout.fetched = 0

C26_Witness ==
    /\ Resolved /\ fin.threshold = DefaultThreshold
    /\ fout.kind = "return" /\ fout.present
    /\ Len(fin.cands) = 3
    /\ fout.value.musicbrainz_id = 2
    /\ ~ExactMatch(2) /\ PrefixMatch(2)
    /\ ~PrefixMatch(1) /\ ~PrefixMatch(3)

====
